---- MODULE Spec2Model ----
(***************************************************************************)
(* Model of src/src/App.tsx: the Gauss-Seidel/SOR inpainting engine        *)
(* (makeDamagedView, inpaintGaussSeidel, rmseOnMissing), the image         *)
(* conversions around it and the App handlers that drive it.               *)
(*                                                                         *)
(* Numbers.  A Float32Array sample is modelled in fixed point: the integer *)
(* v stands for v / Scale.  Arithmetic on JavaScript numbers (doubles) is  *)
(* exact at this resolution; a store into a Float32Array rounds to the     *)
(* nearest representable sample (Fround), ties to even.                    *)
(* Buffers are sequences; the code's 0-based index i is position i + 1.    *)
(***************************************************************************)
EXTENDS Integers, Sequences, FiniteSets, TLC

\* ---------------------------------------------------------------- bounds
FracBits == 8
MaxIter == 3
ScenarioMaxIter == 8

RECURSIVE Pow2(_)
Pow2(n) == IF n = 0 THEN 1 ELSE 2 * Pow2(n - 1)

Scale == Pow2(FracBits)

\* ------------------------------------------------------------ arithmetic
Abs(a) == IF a < 0 THEN -a ELSE a
Min(a, b) == IF a < b THEN a ELSE b
Max(a, b) == IF a > b THEN a ELSE b

RECURSIVE Gcd(_, _)
Gcd(a, b) == IF b = 0 THEN a ELSE Gcd(b, a % b)

\* n / d rounded toward minus infinity instead of to the nearest.
Fround_floor(n, d) == n \div d

\* n / d rounded to the nearest integer, ties to even (d > 0): the rounding
\* of a store into a Float32Array.
Fround(n, d) ==
    LET q == n \div d
        r == n - q * d
    IN  IF 2 * r > d THEN q + 1
        ELSE IF 2 * r < d THEN q
        ELSE IF q % 2 = 0 THEN q ELSE q + 1

\* Math.round(n / d): nearest integer, ties toward +infinity (d > 0).
MathRound(n, d) == (2 * n + d) \div (2 * d)

\* The double n / d kept as a reduced fraction <<num, den>>.
Quot(n, d) == LET g == Gcd(Abs(n), d) IN <<n \div g, d \div g>>
Zero == <<0, 1>>
\* q < t for a fraction q and a fixed-point number t.
QuotLess(q, t) == q[1] < t * q[2]

\* Math.sqrt of the non-negative double n / d, rounded down to the grid.
RECURSIVE SqrtIter(_, _)
SqrtIter(n, x) ==
    LET y == (x + n \div x) \div 2
    IN  IF y >= x THEN x ELSE SqrtIter(n, y)
MathSqrt(n, d) == LET m == n \div d IN IF m = 0 THEN 0 ELSE SqrtIter(m, m)

\* -------------------------------------------------------------- buffers
At(buf, i) == buf[i + 1]
Store(buf, i, v) == [buf EXCEPT ![i + 1] = v]
Zeros(n) == [i \in 1..n |-> 0]

NullTensor == [H |-> 0, W |-> 0, C |-> 0, data |-> <<>>]
NullMask == <<>>
NullImage == [width |-> 0, height |-> 0]

\* ------------------------------------------------------ image conversions
\* const C = 3 in rgbaToTensor; the index arithmetic of makeDamagedView and
\* tensorToImageData is written with the literal 3 as well.
Channels == 3

rgbaToTensor(imageData) ==
    LET W == imageData.width
        H == imageData.height
    IN  [H |-> H, W |-> W, C |-> Channels,
         data |-> [k \in 1..(H * W * Channels) |->
                     LET i == (k - 1) \div 3
                         c == (k - 1) % 3
                     IN  Fround(At(imageData.data, i * 4 + c) * Scale, 255)]]

tensorToImageData_noclamp(tensor) ==
    [width |-> tensor.W, height |-> tensor.H,
     data |-> [k \in 1..(tensor.H * tensor.W * 4) |->
                 LET i == (k - 1) \div 4
                     c == (k - 1) % 4
                 IN  IF c = 3 THEN 255
                     ELSE MathRound(At(tensor.data, i * 3 + c) * 255, Scale)]]

tensorToImageData(tensor) ==
    [width |-> tensor.W, height |-> tensor.H,
     data |-> [k \in 1..(tensor.H * tensor.W * 4) |->
                 LET i == (k - 1) \div 4
                     c == (k - 1) % 4
                 IN  IF c = 3 THEN 255
                     ELSE MathRound(
                            Min(255 * Scale,
                                Max(0, At(tensor.data, i * 3 + c) * 255)),
                            Scale)]]

\* --------------------------------------------------------- makeDamagedView
makeDamagedView_onechannel(original, known) ==
    [H |-> original.H, W |-> original.W, C |-> original.C,
     data |-> [k \in 1..Len(original.data) |->
                 LET i == (k - 1) \div 3
                 IN  IF i < original.H * original.W /\ At(known, i) = 0
                        /\ (k - 1) % 3 = 0
                     THEN 0
                     ELSE original.data[k]]]

makeDamagedView(original, known) ==
    [H |-> original.H, W |-> original.W, C |-> original.C,
     data |-> [k \in 1..Len(original.data) |->
                 LET i == (k - 1) \div 3
                 IN  IF i < original.H * original.W /\ At(known, i) = 0
                     THEN 0
                     ELSE original.data[k]]]

\* ------------------------------------------------------ randomKnownMask
\* Math.random() > damagePercent / 100 ? 1 : 0 for every pixel: with
\* 0 < damagePercent < 100 every 0/1 mask of W * H entries can come out.
randomKnownMask(W, H) == [1..(W * H) -> {0, 1}]

\* --------------------------------------------------------- rmseOnMissing
RECURSIVE SumSqError(_, _, _, _)
SumSqError(original, reconstructed, known, k) ==
    IF k >= original.H * original.W * original.C THEN 0
    ELSE LET i == k \div original.C
             diff == At(original.data, k) - At(reconstructed.data, k)
         IN  (IF At(known, i) = 0 THEN diff * diff ELSE 0)
             + SumSqError(original, reconstructed, known, k + 1)

RECURSIVE CountMissing(_, _, _)
CountMissing(original, known, i) ==
    IF i >= original.H * original.W THEN 0
    ELSE (IF At(known, i) = 0 THEN original.C ELSE 0)
         + CountMissing(original, known, i + 1)

\* Samples are v / Scale, so the squared differences are in units of
\* 1 / Scale^2 and the root is again in units of 1 / Scale.
rmseOnMissing(original, reconstructed, known) ==
    LET sumSqError == SumSqError(original, reconstructed, known, 0)
        count == CountMissing(original, known, 0)
    IN  IF count > 0 THEN MathSqrt(sumSqError, count) ELSE 0

\* ---------------------------------------------------- inpaintGaussSeidel
OmegaNum == 5
OmegaDen == 4

isKnown_never(known, idx) == FALSE

isKnown(known, idx) == At(known, idx) = 1

neighbors_wrap(H, W, y, x) ==
    << <<(y - 1) % H, x>>, <<(y + 1) % H, x>>,
       <<y, (x - 1) % W>>, <<y, (x + 1) % W>> >>

neighbors(H, W, y, x) ==
    << <<Max(0, y - 1), x>>,
       <<Min(H - 1, y + 1), x>>,
       <<y, Max(0, x - 1)>>,
       <<y, Min(W - 1, x + 1)>> >>

\* One pass of the body of the three nested loops (y, x, c), for the sample
\* k = (y * W + x) * C + c; st carries U, totalChange and changeCount.
SweepCell(damaged, known, st, k) ==
    LET H == damaged.H
        W == damaged.W
        C == damaged.C
        idx == k \div C
        c == k % C
        y == idx \div W
        x == idx % W
    IN  IF isKnown(known, idx)
        THEN [st EXCEPT !.U = Store(st.U, k, At(damaged.data, k))]
        ELSE LET nb == neighbors(H, W, y, x)
                 val(j) == At(st.U, (nb[j][1] * W + nb[j][2]) * C + c)
                 sum == val(1) + val(2) + val(3) + val(4)
                 oldVal == At(st.U, k)
                 \* oldVal + omega * (sum / 4 - oldVal), stored as float32
                 stored == Fround(4 * OmegaDen * oldVal
                                    + OmegaNum * (sum - 4 * oldVal),
                                  4 * OmegaDen)
             IN  [U |-> Store(st.U, k, stored),
                  totalChange |-> st.totalChange + Abs(stored - oldVal),
                  changeCount |-> st.changeCount + 1]

RECURSIVE SweepLoop(_, _, _, _)
SweepLoop(damaged, known, st, k) ==
    IF k >= damaged.H * damaged.W * damaged.C THEN st
    ELSE SweepLoop(damaged, known, SweepCell(damaged, known, st, k), k + 1)

SweepOnce(damaged, known, Ubuf) ==
    SweepLoop(damaged, known,
              [U |-> Ubuf, totalChange |-> 0, changeCount |-> 0], 0)

avgChange_one(st) ==
    IF st.changeCount > 0 THEN Quot(st.totalChange, st.changeCount)
    ELSE <<1, 1>>

avgChange(st) ==
    IF st.changeCount > 0 THEN Quot(st.totalChange, st.changeCount)
    ELSE Zero

converged_never(avg, tolerance) == FALSE

converged(avg, tolerance) == QuotLess(avg, tolerance)

\* The caller's tensor object as seen after the solver wrote the buffer
\* Ubuf: U is a fresh copy (new Float32Array(damaged.data)), so stores into
\* U do not reach damaged.data.
inputAfterStores_aliased(damaged, Ubuf) == [damaged EXCEPT !.data = Ubuf]

inputAfterStores(damaged, Ubuf) == damaged

\* The whole call as a function of its arguments: the loop of lines 95-143
\* from U = copy of damaged.data, then the returned tensor and residuals.
RECURSIVE inpaintLoop(_, _, _, _, _, _, _)
inpaintLoop(damaged, known, maxIterations, tolerance, Ubuf, it, res) ==
    IF ~(it < maxIterations) THEN [U |-> Ubuf, residuals |-> res, iter |-> it]
    ELSE LET st == SweepOnce(damaged, known, Ubuf)
             avg == avgChange(st)
         IN  IF converged(avg, tolerance)
             THEN [U |-> st.U, residuals |-> Append(res, avg), iter |-> it]
             ELSE inpaintLoop(damaged, known, maxIterations, tolerance,
                              st.U, it + 1, Append(res, avg))

inpaintGaussSeidel(damaged, known, lam, bet, maxIterations, tolerance) ==
    LET r == inpaintLoop(damaged, known, maxIterations, tolerance,
                         damaged.data, 0, <<>>)
    IN  [reconstructed |-> [H |-> damaged.H, W |-> damaged.W,
                            C |-> damaged.C, data |-> r.U],
         residuals |-> r.residuals,
         iterations |-> r.iter + 1]

\* ------------------------------------------------------------ MaskCanvas
\* drawMask: every pixel of the mask within the brush radius of (px, py).
drawMaskStamp(mask, width, height, px, py, brushSize) ==
    LET radius == brushSize \div 2
    IN  [k \in 1..Len(mask) |->
           LET nx == (k - 1) % width
               ny == (k - 1) \div width
               dx == nx - px
               dy == ny - py
           IN  IF dx * dx + dy * dy <= radius * radius THEN 1 ELSE mask[k]]

RECURSIVE SumSeq(_, _)
SumSeq(s, k) == IF k > Len(s) THEN 0 ELSE s[k] + SumSeq(s, k + 1)
paintedCount(mask) == SumSeq(mask, 1)

\* ---------------------------------------------------------------- inputs
Palette == { <<0, 0, 0>>, <<255, 255, 255>> }

ImageOf(W, H, colour) ==
    [width |-> W, height |-> H,
     data |-> [k \in 1..(W * H * 4) |->
                 IF (k - 1) % 4 = 3 THEN 255
                 ELSE colour[(k - 1) \div 4][((k - 1) % 4) + 1]]]

AllImages(W, H) == { ImageOf(W, H, f) : f \in [0..(W * H - 1) -> Palette] }

\* An image whose samples differ from pixel to pixel and channel to channel.
GradientImage(W, H) ==
    ImageOf(W, H, [i \in 0..(W * H - 1) |->
                     <<255 - 8 * i, 128 + 8 * i, 30 * i>>])

\* Images handed to the solver specification and to the application.
SolverImages == AllImages(2, 2) \cup {GradientImage(3, 3)}
UploadImages == {GradientImage(2, 1), GradientImage(4, 1)}

\* Tolerances, in units of 1 / Scale.  The slider gives positive values;
\* the function itself accepts any number.
SliderTols == {1, Scale \div 4}
AnyTols == {0} \cup SliderTols
\* maxIter: the slider gives positive values, the function accepts any.
SliderMaxIters == {MaxIter}
AnyMaxIters == (-1)..MaxIter
\* (lambda, beta) in tenths: slider defaults 0.5 / 1.5 and another setting.
SliderWeights == { <<5, 15>> }
Weights == SliderWeights \cup { <<20, 30>> }
BrushSizes == {5, 15}

\* ----------------------------------------------------------------- state
VARIABLES
    \* App (useState)
    originalImage, originalTensor, manualMask, knownMask, damagedTensor,
    reconstructedTensor, residuals, rmse, iterations, useManualMask,
    \* MaskCanvas
    isDrawing, maskRef,
    \* the running call of inpaintGaussSeidel: its parameters and locals
    pc, lambda, beta, maxIter, tol, U, iter, loopResiduals,
    \* history: sweeps completed by the call, the input objects as they were
    \* on entry, whether the call repeats the previous call's maxIter and
    \* tol on the same objects, the alert of the last Apply Damage
    sweeps, entry, again, alertShown

appVars == <<originalImage, originalTensor, manualMask, knownMask,
             damagedTensor, reconstructedTensor, residuals, rmse,
             iterations, useManualMask>>
canvasVars == <<isDrawing, maskRef>>
frameVars == <<pc, lambda, beta, maxIter, tol, U, iter, loopResiduals>>
histVars == <<sweeps, entry, again, alertShown>>
vars == <<appVars, canvasVars, frameVars, histVars>>

NoEntry == [damaged |-> NullTensor, known |-> NullMask]

FrameIdle ==
    /\ pc = "idle" /\ lambda = 0 /\ beta = 0 /\ maxIter = 0 /\ tol = 0
    /\ U = <<>> /\ iter = 0 /\ loopResiduals = <<>>
    /\ sweeps = 0 /\ entry = NoEntry /\ again = FALSE

\* State after construction of App (lines 374-391).
Init ==
    /\ originalImage = NullImage
    /\ originalTensor = NullTensor
    /\ manualMask = NullMask
    /\ knownMask = NullMask
    /\ damagedTensor = NullTensor
    /\ reconstructedTensor = NullTensor
    /\ residuals = <<>>
    /\ rmse = 0
    /\ iterations = 0
    /\ useManualMask = TRUE
    /\ isDrawing = FALSE
    /\ maskRef = NullMask
    /\ FrameIdle
    /\ alertShown = FALSE

\* ------------------------------------------------------------- rendering
\* MaskCanvas is rendered only when an image is loaded and the manual mode
\* is on (lines 645-656).  Every render of App passes a new ImageData object
\* (getImageData builds one), so the effect of lines 184-203 runs after each
\* of them and installs a new all-zero Uint8Array in maskRef.
Mounted(image, manual) == image # NullImage /\ manual

maskRefAfterRender(image, manual) ==
    IF Mounted(image, manual) THEN Zeros(image.width * image.height)
    ELSE NullMask

\* ------------------------------------------------------ App: image upload
\* img.onload of handleImageUpload (lines 398-416).
handleImageUpload ==
    /\ pc = "idle"
    /\ \E img \in UploadImages :
         /\ originalImage' = [width |-> img.width, height |-> img.height]
         /\ originalTensor' = rgbaToTensor(img)
         /\ manualMask' = Zeros(img.width * img.height)
         /\ maskRef' = maskRefAfterRender(originalImage', useManualMask)
    /\ knownMask' = NullMask
    /\ damagedTensor' = NullTensor
    /\ reconstructedTensor' = NullTensor
    /\ residuals' = <<>>
    /\ UNCHANGED <<rmse, iterations, useManualMask, isDrawing, frameVars,
                   histVars>>

\* The checkbox of lines 504-508 (shown once an image is loaded).
setUseManualMask ==
    /\ pc = "idle"
    /\ originalImage # NullImage
    /\ useManualMask' = ~useManualMask
    /\ isDrawing' = FALSE
    /\ maskRef' = maskRefAfterRender(originalImage, useManualMask')
    /\ UNCHANGED <<originalImage, originalTensor, manualMask, knownMask,
                   damagedTensor, reconstructedTensor, residuals, rmse,
                   iterations, frameVars, histVars>>

\* ------------------------------------------------------- MaskCanvas events
\* drawMask (lines 205-238) followed by the render that setManualMask causes.
drawMask(px, py, brushSize) ==
    LET painted == drawMaskStamp(maskRef, originalImage.width,
                                 originalImage.height, px, py, brushSize)
    IN  /\ manualMask' = painted
        /\ maskRef' = maskRefAfterRender(originalImage, useManualMask)

handleMouseDown ==
    /\ pc = "idle"
    /\ Mounted(originalImage, useManualMask)
    /\ \E px \in 0..(originalImage.width - 1),
          py \in 0..(originalImage.height - 1), b \in BrushSizes :
         drawMask(px, py, b)
    /\ isDrawing' = TRUE
    /\ UNCHANGED <<originalImage, originalTensor, knownMask, damagedTensor,
                   reconstructedTensor, residuals, rmse, iterations,
                   useManualMask, frameVars, histVars>>

handleMouseMove ==
    /\ pc = "idle"
    /\ Mounted(originalImage, useManualMask)
    /\ isDrawing
    /\ \E px \in 0..(originalImage.width - 1),
          py \in 0..(originalImage.height - 1), b \in BrushSizes :
         drawMask(px, py, b)
    /\ UNCHANGED <<originalImage, originalTensor, knownMask, damagedTensor,
                   reconstructedTensor, residuals, rmse, iterations,
                   useManualMask, isDrawing, frameVars, histVars>>

handleMouseUp ==
    /\ pc = "idle"
    /\ Mounted(originalImage, useManualMask)
    /\ isDrawing
    /\ isDrawing' = FALSE
    /\ UNCHANGED <<appVars, maskRef, frameVars, histVars>>

handleClearMask ==
    /\ pc = "idle"
    /\ Mounted(originalImage, useManualMask)
    /\ manualMask' = Zeros(Len(maskRef))
    /\ maskRef' = maskRefAfterRender(originalImage, useManualMask)
    /\ UNCHANGED <<originalImage, originalTensor, knownMask, damagedTensor,
                   reconstructedTensor, residuals, rmse, iterations,
                   useManualMask, isDrawing, frameVars, histVars>>

\* ------------------------------------------------------ App: Apply Damage
knownFromPaint(mask) == [k \in 1..Len(mask) |-> IF mask[k] = 1 THEN 0 ELSE 1]

\* Lines 452-456 without the two resets.
applyKnown_keep(known) ==
    /\ knownMask' = known
    /\ damagedTensor' = makeDamagedView(originalTensor, known)
    /\ UNCHANGED <<reconstructedTensor, residuals>>
    /\ maskRef' = maskRefAfterRender(originalImage, useManualMask)

\* Lines 452-456.
applyKnown(known) ==
    /\ knownMask' = known
    /\ damagedTensor' = makeDamagedView(originalTensor, known)
    /\ reconstructedTensor' = NullTensor
    /\ residuals' = <<>>
    /\ maskRef' = maskRefAfterRender(originalImage, useManualMask)

handleApplyDamage_nocheck ==
    /\ pc = "idle"
    /\ originalTensor # NullTensor
    /\ IF useManualMask /\ manualMask # NullMask
       THEN applyKnown(knownFromPaint(manualMask))
       ELSE \E known \in randomKnownMask(originalTensor.W, originalTensor.H) :
              applyKnown(known)
    /\ alertShown' = FALSE
    /\ UNCHANGED <<originalImage, originalTensor, manualMask, rmse,
                   iterations, useManualMask, isDrawing, frameVars,
                   sweeps, entry, again>>

handleApplyDamage ==
    /\ pc = "idle"
    /\ originalTensor # NullTensor
    /\ IF useManualMask /\ manualMask # NullMask
       THEN IF paintedCount(manualMask) = 0
            THEN /\ alertShown' = TRUE
                 /\ UNCHANGED <<knownMask, damagedTensor, reconstructedTensor,
                                residuals, maskRef>>
            ELSE /\ applyKnown(knownFromPaint(manualMask))
                 /\ alertShown' = FALSE
       ELSE /\ \E known \in randomKnownMask(originalTensor.W,
                                            originalTensor.H) :
                 applyKnown(known)
            /\ alertShown' = FALSE
    /\ UNCHANGED <<originalImage, originalTensor, manualMask, rmse,
                   iterations, useManualMask, isDrawing, frameVars,
                   sweeps, entry, again>>

\* ------------------------------------------------ inpaintGaussSeidel steps
\* Entry of the call (lines 88-93).
enterInpaint(lam, bet, mi, to, rep) ==
    /\ pc' = "loop"
    /\ again' = rep
    /\ lambda' = lam
    /\ beta' = bet
    /\ maxIter' = mi
    /\ tol' = to
    /\ U' = damagedTensor.data
    /\ iter' = 0
    /\ loopResiduals' = <<>>
    /\ sweeps' = 0
    /\ entry' = [damaged |-> damagedTensor, known |-> knownMask]
    /\ UNCHANGED <<appVars, canvasVars, alertShown>>

\* handleReconstruct up to the call (lines 459-464), with the slider values.
handleReconstruct ==
    /\ pc = "idle"
    /\ damagedTensor # NullTensor
    /\ knownMask # NullMask
    /\ \E w \in SliderWeights, mi \in SliderMaxIters, to \in SliderTols :
         enterInpaint(w[1], w[2], mi, to, FALSE)

\* One iteration of the for loop of lines 95-143.
Sweep ==
    /\ pc = "loop"
    /\ iter < maxIter
    /\ LET st == SweepOnce(damagedTensor, knownMask, U)
           avg == avgChange(st)
       IN  /\ U' = st.U
           /\ loopResiduals' = Append(loopResiduals, avg)
           /\ damagedTensor' = inputAfterStores(damagedTensor, st.U)
           /\ IF converged(avg, tol)
              THEN pc' = "exit" /\ iter' = iter
              ELSE pc' = "loop" /\ iter' = iter + 1
    /\ sweeps' = sweeps + 1
    /\ UNCHANGED <<originalImage, originalTensor, manualMask, knownMask,
                   reconstructedTensor, residuals, rmse, iterations,
                   useManualMask, canvasVars, lambda, beta, maxIter, tol,
                   entry, again, alertShown>>

\* Lines 145-148 and the rest of handleReconstruct (lines 466-469).
Return ==
    /\ pc = "exit" \/ (pc = "loop" /\ ~(iter < maxIter))
    /\ LET reconstructed == [H |-> damagedTensor.H, W |-> damagedTensor.W,
                             C |-> damagedTensor.C, data |-> U]
       IN  /\ reconstructedTensor' = reconstructed
           /\ residuals' = loopResiduals
           /\ rmse' = rmseOnMissing(damagedTensor, reconstructed, knownMask)
           /\ iterations' = iter + 1
    /\ pc' = "done"
    /\ maskRef' = maskRefAfterRender(originalImage, useManualMask)
    /\ UNCHANGED <<originalImage, originalTensor, manualMask, knownMask,
                   damagedTensor, useManualMask, isDrawing, lambda, beta,
                   maxIter, tol, U, iter, loopResiduals, histVars>>

\* handleReconstruct has returned: the call's frame is gone.
Release ==
    /\ pc = "done"
    /\ pc' = "idle"
    /\ lambda' = 0 /\ beta' = 0 /\ maxIter' = 0 /\ tol' = 0
    /\ U' = <<>> /\ iter' = 0 /\ loopResiduals' = <<>>
    /\ sweeps' = 0 /\ entry' = NoEntry /\ again' = FALSE
    /\ UNCHANGED <<appVars, canvasVars, alertShown>>

Next ==
    \/ handleImageUpload
    \/ setUseManualMask
    \/ handleMouseMove
    \/ handleMouseDown
    \/ handleMouseUp
    \/ handleClearMask
    \/ handleApplyDamage
    \/ handleReconstruct
    \/ Sweep
    \/ Return
    \/ Release

Spec == Init /\ [][Next]_vars

\* ------------------------------------------- the solver taken on its own
\* makeDamagedView and inpaintGaussSeidel as functions of their arguments:
\* a source tensor and a known mask are drawn, the damaged view is derived
\* and the solver is called with any parameters; a second call on the same
\* objects (the result of the first, made with the default weights, still
\* held by the caller) repeats maxIter and tol with other weights.
SolverInit ==
    /\ \E img \in SolverImages :
         /\ originalImage = [width |-> img.width, height |-> img.height]
         /\ originalTensor = rgbaToTensor(img)
         /\ manualMask = Zeros(img.width * img.height)
         /\ knownMask \in randomKnownMask(img.width, img.height)
    /\ damagedTensor = NullTensor
    /\ reconstructedTensor = NullTensor
    /\ residuals = <<>>
    /\ rmse = 0
    /\ iterations = 0
    /\ useManualMask = FALSE
    /\ isDrawing = FALSE
    /\ maskRef = NullMask
    /\ FrameIdle
    /\ alertShown = FALSE

callMakeDamagedView ==
    /\ pc = "idle"
    /\ damagedTensor = NullTensor
    /\ damagedTensor' = makeDamagedView(originalTensor, knownMask)
    /\ UNCHANGED <<originalImage, originalTensor, manualMask, knownMask,
                   reconstructedTensor, residuals, rmse, iterations,
                   useManualMask, canvasVars, frameVars, histVars>>

callInpaint ==
    /\ pc = "idle"
    /\ damagedTensor # NullTensor
    /\ \E w \in SliderWeights, mi \in AnyMaxIters, to \in AnyTols :
         enterInpaint(w[1], w[2], mi, to, FALSE)

callInpaintAgain ==
    /\ pc = "done"
    /\ \E w \in Weights \ SliderWeights :
         enterInpaint(w[1], w[2], maxIter, tol, TRUE)

SolverNext ==
    \/ callMakeDamagedView
    \/ callInpaint
    \/ callInpaintAgain
    \/ Sweep
    \/ Return

SolverSpec == SolverInit /\ [][SolverNext]_vars

\* ------------------------------------- the 2x2 diagonal scenario
\* The tensor [1,0; 0,1] (white on the diagonal, black off it) with the
\* diagonal known, handed to makeDamagedView and then to the solver with
\* any positive maxIter up to ScenarioMaxIter and any tolerance.
ScenarioImage ==
    ImageOf(2, 2, [i \in 0..3 |->
                     IF i \in {0, 3} THEN <<255, 255, 255>> ELSE <<0, 0, 0>>])
ScenarioKnown == <<1, 0, 0, 1>>

ScenarioInit ==
    /\ originalImage = [width |-> 2, height |-> 2]
    /\ originalTensor = rgbaToTensor(ScenarioImage)
    /\ manualMask = Zeros(4)
    /\ knownMask = ScenarioKnown
    /\ damagedTensor = NullTensor
    /\ reconstructedTensor = NullTensor
    /\ residuals = <<>>
    /\ rmse = 0
    /\ iterations = 0
    /\ useManualMask = FALSE
    /\ isDrawing = FALSE
    /\ maskRef = NullMask
    /\ FrameIdle
    /\ alertShown = FALSE

callInpaintScenario ==
    /\ pc = "idle"
    /\ damagedTensor # NullTensor
    /\ \E w \in Weights, mi \in 1..ScenarioMaxIter, to \in AnyTols :
         enterInpaint(w[1], w[2], mi, to, FALSE)

ScenarioNext ==
    \/ callMakeDamagedView
    \/ callInpaintScenario
    \/ Sweep
    \/ Return

ScenarioSpec == ScenarioInit /\ [][ScenarioNext]_vars

\* ================================================================ claims
InCall == pc \in {"loop", "exit", "done"}
Returned == pc = "done"
AllKnown == \A i \in 1..Len(knownMask) : knownMask[i] = 1
PixelOf(k) == (k - 1) \div damagedTensor.C
KnownSample(k) == At(knownMask, PixelOf(k)) = 1
ResidualBelowTol(j) == QuotLess(loopResiduals[j], tol)

\* C1: during and after a call of inpaintGaussSeidel every sample of a known
\* pixel (known[i] = 1) in U, and in the returned tensor, equals the sample
\* the damaged tensor had on entry.
C1_KnownPixelsKept ==
    InCall =>
        /\ \A k \in 1..Len(U) :
             KnownSample(k) => U[k] = entry.damaged.data[k]
        /\ Returned =>
             \A k \in 1..Len(U) :
               KnownSample(k) =>
                 reconstructedTensor.data[k] = entry.damaged.data[k]

C1_Witness ==
    /\ Returned
    /\ sweeps >= 2
    /\ \E k \in 1..Len(U) : KnownSample(k) /\ entry.damaged.data[k] # 0
    /\ \E k \in 1..Len(U) : ~KnownSample(k) /\ U[k] # entry.damaged.data[k]

\* C2: the reported iteration count equals the number of sweeps completed
\* and the length of the residual sequence; it is in 1..maxIter when
\* maxIter >= 1 and 0 when maxIter <= 0.
C2_IterationsAreSweeps ==
    Returned =>
        /\ iterations = sweeps
        /\ iterations = Len(residuals)
        /\ maxIter >= 1 => iterations \in 1..maxIter
        /\ maxIter <= 0 => iterations = 0

\* C3 as stated: never more than maxIter sweeps, and fewer than maxIter
\* sweeps exactly when some sweep's residual was below tol.
C3_Original ==
    Returned =>
        /\ sweeps <= maxIter
        /\ (sweeps < maxIter) <=>
             (\E j \in 1..Len(loopResiduals) : ResidualBelowTol(j))

\* C3 amended: never more than max(maxIter, 0) sweeps, and fewer than maxIter
\* sweeps exactly when a sweep before the maxIter-th had its residual below
\* tol.
C3_SweepBound ==
    Returned =>
        /\ sweeps <= Max(maxIter, 0)
        /\ (sweeps < maxIter) <=>
             (\E j \in 1..Len(loopResiduals) :
                j < maxIter /\ ResidualBelowTol(j))

\* The residual first drops below tol on the maxIter-th sweep.
C3_Witness ==
    /\ Returned
    /\ maxIter >= 2
    /\ sweeps = maxIter
    /\ ResidualBelowTol(maxIter)
    /\ \A j \in 1..(maxIter - 1) : ~ResidualBelowTol(j)

\* C4: the rmse of the result is the RMSE between the source tensor the
\* damaged tensor was derived from and the final U, over the unknown pixels.
C4_RmseAgainstSource ==
    Returned =>
        rmse = rmseOnMissing(originalTensor, reconstructedTensor, knownMask)

\* C5 as stated: with an all-ones mask, for every maxIter >= 1 and every
\* tol, the result is residuals [0], iterations 1 and the damaged tensor.
C5_Original ==
    (Returned /\ AllKnown /\ maxIter >= 1) =>
        /\ residuals = <<Zero>>
        /\ iterations = 1
        /\ reconstructedTensor = entry.damaged

\* C5 amended: the same for every maxIter >= 1 and every tol > 0.
C5_AllKnownShortcut ==
    (Returned /\ AllKnown /\ maxIter >= 1 /\ tol > 0) =>
        /\ residuals = <<Zero>>
        /\ iterations = 1
        /\ sweeps = 1
        /\ reconstructedTensor = entry.damaged

C5_Witness ==
    /\ Returned /\ AllKnown /\ maxIter >= 2 /\ tol > 0
    /\ \E k \in 1..Len(U) : U[k] # 0

InUnit(v) == 0 <= v /\ v <= Scale
EncodedBytes == tensorToImageData([H |-> damagedTensor.H,
                                   W |-> damagedTensor.W,
                                   C |-> damagedTensor.C, data |-> U]).data

\* C6 as stated: if every sample of the damaged tensor is in [0,1], every
\* sample of U after every sweep, and of the returned tensor, is in [0,1].
C6_Original ==
    (InCall /\ \A k \in 1..Len(U) : InUnit(entry.damaged.data[k])) =>
        \A k \in 1..Len(U) : InUnit(U[k])

\* C6 amended: if every sample of the damaged tensor is in [0,1], then after
\* every sweep and in the returned tensor every sample of a known pixel is in
\* [0,1] and every sample is encoded by tensorToImageData to a byte in
\* 0..255 (samples of unknown pixels can leave [0,1]).
C6_RangeAfterEncoding ==
    (InCall /\ \A k \in 1..Len(U) : InUnit(entry.damaged.data[k])) =>
        /\ \A k \in 1..Len(U) : KnownSample(k) => InUnit(U[k])
        /\ \A b \in 1..Len(EncodedBytes) : EncodedBytes[b] \in 0..255

\* A sample of an unknown pixel has left [0,1].
C6_Witness ==
    /\ Returned
    /\ \A k \in 1..Len(U) : InUnit(entry.damaged.data[k])
    /\ \E k \in 1..Len(U) : ~KnownSample(k) /\ ~InUnit(U[k])

EmptyPaintAttempt ==
    /\ handleApplyDamage
    /\ useManualMask
    /\ manualMask # NullMask
    /\ paintedCount(manualMask) = 0

\* C7: Apply Damage in manual mode with no painted pixel leaves the known
\* mask, the damaged tensor, the reconstructed tensor and the residuals as
\* they were, and starts no damage or reconstruction step.
C7_EmptyMaskNoChange ==
    [][EmptyPaintAttempt =>
         /\ UNCHANGED <<knownMask, damagedTensor, reconstructedTensor,
                        residuals, originalTensor, manualMask>>
         /\ pc' = "idle"]_vars

\* The alert was raised while an earlier damage and reconstruction were held.
C7_Witness ==
    /\ alertShown
    /\ useManualMask
    /\ paintedCount(manualMask) = 0
    /\ knownMask # NullMask
    /\ \E i \in 1..Len(knownMask) : knownMask[i] = 0
    /\ reconstructedTensor # NullTensor

\* C8: makeDamagedView returns a tensor of the source's H, W, C whose
\* samples are 0 at every pixel with known[i] = 0 and the source's samples at
\* every pixel with known[i] = 1; the source is unchanged.
C8_DamagedView ==
    [][(damagedTensor = NullTensor /\ damagedTensor' # NullTensor) =>
         /\ damagedTensor'.H = originalTensor.H
         /\ damagedTensor'.W = originalTensor.W
         /\ damagedTensor'.C = originalTensor.C
         /\ Len(damagedTensor'.data) = Len(originalTensor.data)
         /\ \A i \in 0..(originalTensor.H * originalTensor.W - 1) :
              \A c \in 0..(originalTensor.C - 1) :
                At(damagedTensor'.data, i * originalTensor.C + c) =
                  IF At(knownMask, i) = 0 THEN 0
                  ELSE At(originalTensor.data, i * originalTensor.C + c)
         /\ originalTensor' = originalTensor]_vars

C8_Witness ==
    /\ damagedTensor # NullTensor
    /\ pc = "idle"
    /\ \E k \in 1..Len(damagedTensor.data) :
         ~KnownSample(k) /\ originalTensor.data[k] # 0
    /\ \E k \in 1..Len(damagedTensor.data) :
         KnownSample(k) /\ originalTensor.data[k] # 0

\* C9: a call leaves the damaged tensor and the mask as they were on entry,
\* and a second call on the same objects with the same maxIter and tol and
\* another lambda and beta returns the residuals, tensor, rmse and iteration
\* count the first call returned.
C9_ResultDependsOnFourArgs ==
    [][(pc # "done" /\ pc' = "done") =>
         /\ damagedTensor' = entry.damaged
         /\ knownMask' = entry.known
         /\ again =>
              /\ reconstructedTensor' = reconstructedTensor
              /\ residuals' = residuals
              /\ rmse' = rmse
              /\ iterations' = iterations]_vars

\* A repeated call with the other weights has returned after real work.
C9_Witness ==
    /\ Returned
    /\ again
    /\ lambda = 20
    /\ sweeps >= 2
    /\ reconstructedTensor # damagedTensor

\* The sample of pixel (ny, nx), channel c, that the update of pixel (y, x)
\* reads: its own old value where the coordinate is clamped onto itself, the
\* value of this sweep above and to the left, of the previous sweep below
\* and to the right.
ReadAbove(Unew, Uold, W, C, y, x, c) ==
    IF y - 1 < 0 THEN At(Uold, (y * W + x) * C + c)
    ELSE At(Unew, ((y - 1) * W + x) * C + c)
ReadBelow(Uold, H, W, C, y, x, c) ==
    IF y + 1 > H - 1 THEN At(Uold, (y * W + x) * C + c)
    ELSE At(Uold, ((y + 1) * W + x) * C + c)
ReadLeft(Unew, Uold, W, C, y, x, c) ==
    IF x - 1 < 0 THEN At(Uold, (y * W + x) * C + c)
    ELSE At(Unew, (y * W + x - 1) * C + c)
ReadRight(Uold, W, C, y, x, c) ==
    IF x + 1 > W - 1 THEN At(Uold, (y * W + x) * C + c)
    ELSE At(Uold, (y * W + x + 1) * C + c)

UnknownSamples == { k \in 1..Len(U) : ~KnownSample(k) }

RECURSIVE SumAbsChange(_, _, _)
SumAbsChange(Unew, Uold, S) ==
    IF S = {} THEN 0
    ELSE LET k == CHOOSE e \in S : TRUE
         IN  Abs(Unew[k] - Uold[k]) + SumAbsChange(Unew, Uold, S \ {k})

\* C10: after a sweep every sample of an unknown pixel is
\* old + 1.25 * (mean - old), stored as a float32, with mean the average of
\* the four clamped neighbours read as ReadAbove .. ReadRight say, and the
\* sweep's residual is the mean of |new - old| over those samples, or 0 if
\* there are none.
C10_GaussSeidelSweep ==
    [][(sweeps' = sweeps + 1) =>
         LET H == damagedTensor.H
             W == damagedTensor.W
             C == damagedTensor.C
         IN  /\ \A y \in 0..(H - 1), x \in 0..(W - 1), c \in 0..(C - 1) :
                  LET k == (y * W + x) * C + c
                      old == At(U, k)
                      sum4 == ReadAbove(U', U, W, C, y, x, c)
                                + ReadBelow(U, H, W, C, y, x, c)
                                + ReadLeft(U', U, W, C, y, x, c)
                                + ReadRight(U, W, C, y, x, c)
                  IN  At(knownMask, y * W + x) = 0 =>
                        \* old + (5/4) * (sum4 / 4 - old)
                        At(U', k) = Fround(16 * old + 5 * (sum4 - 4 * old), 16)
             /\ Len(loopResiduals') = Len(loopResiduals) + 1
             /\ loopResiduals'[Len(loopResiduals')] =
                  IF UnknownSamples = {} THEN Zero
                  ELSE Quot(SumAbsChange(U', U, UnknownSamples),
                            Cardinality(UnknownSamples))]_vars

\* Two sweeps of a 3 x 3 image whose centre and its four neighbours are all
\* unknown, next to known pixels.
C10_Witness ==
    /\ InCall
    /\ sweeps >= 2
    /\ damagedTensor.H = 3 /\ damagedTensor.W = 3
    /\ \A i \in {1, 3, 4, 5, 7} : At(knownMask, i) = 0
    /\ \E i \in {0, 2, 6, 8} : At(knownMask, i) = 1
    /\ \E k \in 1..Len(U) : ~KnownSample(k) /\ U[k] # 0

\* The two unknown cells of the 2x2 diagonal scenario are pixels 1 and 2.
QuotLT(a, b) == a[1] * b[2] < b[1] * a[2]
ScenarioUnknownSamples ==
    { k \in 0..(Len(U) - 1) : At(knownMask, k \div damagedTensor.C) = 0 }
CellsEqualAfter ==
    \A c \in 0..(damagedTensor.C - 1) :
       At(U', 1 * damagedTensor.C + c) = At(U', 2 * damagedTensor.C + c)
NeverAwayFromOne ==
    \A k \in ScenarioUnknownSamples :
       At(U, k) <= At(U', k) /\ At(U', k) <= Scale
LastResidual == loopResiduals'[Len(loopResiduals')]
PrevResidual == loopResiduals[Len(loopResiduals)]

PaintEvent == handleMouseDown \/ handleMouseMove

\* C12: over paint events on the same loaded image (no clear-mask, no new
\* upload) every pixel that an earlier stroke marked 1 in the mask the
\* application holds (manualMask) is still marked 1 after the next stroke.
C12_StrokesAccumulate ==
    [][PaintEvent =>
         \A k \in 1..Len(manualMask) :
            manualMask[k] = 1 => manualMask'[k] = 1]_vars

\* C13: at every point of any sequence of uploads, Apply Damage and
\* Reconstruct actions, the damaged tensor and the known mask are both absent
\* or both present, the damaged tensor being makeDamagedView of the current
\* original tensor and known mask; a reconstructed tensor, when present, is
\* what inpaintGaussSeidel returns for the current damaged tensor and known
\* mask with some slider setting, together with its residuals; and with no
\* reconstruction the residual list is empty.
C13_PipelineConsistent ==
    /\ (damagedTensor = NullTensor) <=> (knownMask = NullMask)
    /\ damagedTensor # NullTensor =>
          /\ originalTensor # NullTensor
          /\ damagedTensor = makeDamagedView(originalTensor, knownMask)
    /\ reconstructedTensor = NullTensor => residuals = <<>>
    /\ reconstructedTensor # NullTensor =>
          /\ damagedTensor # NullTensor
          /\ \E w \in SliderWeights, mi \in SliderMaxIters, to \in SliderTols :
                LET r == inpaintGaussSeidel(damagedTensor, knownMask,
                                            w[1], w[2], mi, to)
                IN  /\ reconstructedTensor = r.reconstructed
                    /\ residuals = r.residuals

\* A reconstruction of a tensor with a damaged pixel is held, it differs
\* from the damaged tensor, and the handler has returned.
C13_Witness ==
    /\ pc = "idle"
    /\ reconstructedTensor # NullTensor
    /\ reconstructedTensor # damagedTensor
    /\ damagedTensor # originalTensor
    /\ residuals # <<>>
    /\ \E i \in 1..Len(knownMask) : knownMask[i] = 0

====
